---- MODULE Spec2Model ----
(***************************************************************************)
(* Model of the log-file text parser of arm9/source/utils/sysinfo.c:       *)
(*   SysInfo_ParseText   - streaming line splitter over a fixed buffer     *)
(*   SysInfo_CommaSplit  - comma tokenizer with a bounded entry count      *)
(* Bytes are their ASCII codes.  Pointers into an array are offsets from   *)
(* its first element; a null pointer is NULL.                              *)
(***************************************************************************)
EXTENDS Integers, Sequences, FiniteSets, TLC

\* ---------------------------------------------------------------- bounds
\* sizeof(buffer) of SysInfo_ParseText, scaled down from 512
Cap == 3
\* longest file content given to SysInfo_ParseText
MaxStream == 6
\* longest line given to SysInfo_CommaSplit
MaxLine == 4
\* largest max_entries given to SysInfo_CommaSplit
MaxEntries == 3
\* longest byte range given to SysInfo_IsOnlyDigits
MaxDigits == 3
\* longest file content given to the first of two SysInfo_ParseText calls
MaxEarlier == 4
\* longest file content given to the second of two SysInfo_ParseText calls
MaxAgain == 3
\* most lines passed to SysInfoLineParser_InspectLog in one run
MaxInspectCalls == 3
\* most lines passed to SysInfoLineParser_ProductLog in one run
MaxProductCalls == 3

\* ------------------------------------------------------------- constants
CR == 13
LF == 10
COMMA == 44
\* countof(info->assembly_date)
AssemblyDateSize == 20
\* countof(info->original_firmware)
OriginalFirmwareSize == 16
\* countof(entries) of SysInfoLineParser_ProductLog
ProductMaxEntries == 10
\* ' '
SPACE == 32
\* '-'
DASH == 45
\* a null pointer (memchr found nothing)
NULL == 0 - 1

\* bytes a file may hold: the two terminators and two content bytes
Alphabet == {CR, LF, 97, 98}
\* the terminators and one content byte
TermAlphabet == {CR, LF, 97}
\* bytes given to SysInfo_IsOnlyDigits: '0', '5', '9', the bytes next to the
\* digit range ('/' and ':') and a letter
DigitAlphabet == {47, 48, 53, 57, 58, 97}
\* bytes a comma separated line may hold
LineAlphabet == {COMMA, 97, 98}

SeqsUpTo(S, n) == UNION {[1..k -> S] : k \in 0..n}

Min(a, b) == IF a < b THEN a ELSE b

VARIABLES
    \* ---- the file behind FIL* file
    stream,       \* the file's content
    pos,          \* the file's read cursor
    \* ---- locals of SysInfo_ParseText
    buffer,       \* char buffer[512], indexed from 0
    filled,
    skip_line,
    prev_cr,
    current,      \* offset of char* current in buffer
    remaining,
    pc,           \* "loop" (head of the outer for), "scan" (head of the
                  \* inner for), "flush" (after the outer for), "done"
    rd_err,       \* fvx_read has returned something other than FR_OK
    nreads,       \* the number of fvx_read calls made so far
    delivered,    \* the calls line_parser(context, p, n) made so far
    earlier,      \* the contents of the files of the calls that returned
                  \* before the running one
    \* ---- SysInfo_CommaSplit
    cs_line,      \* the bytes line points to at the call
    cs_max,       \* max_entries
    cs_off,       \* offset of the parameter line within cs_line
    cs_len,       \* line_length
    cs_index,     \* index
    cs_starts,    \* the cells of starts[] written so far
    cs_lengths,   \* the cells of lengths[] written so far
    cs_ret,       \* the value returned
    cs_pc,        \* "entry", "loop", "ret"; "idle" when not in use
    \* ---- the SysInfo result structure and GetSysInfo_TWLN
    assembly_date,      \* char assembly_date[19 + 1], indexed from 0
    original_firmware,  \* char original_firmware[15 + 1], indexed from 0
    insp_open,    \* fvx_open of inspect.log returned FR_OK
    prod_open,    \* fvx_open of product.log returned FR_OK
    insp_lines,   \* the lines passed to SysInfoLineParser_InspectLog so far
    prod_lines,   \* the lines passed to SysInfoLineParser_ProductLog so far
    tw_pc,        \* where GetSysInfo_TWLN is: "init", "inspect_open",
                  \* "inspect", "product_open", "product", "done"
    \* ---- SysInfo_IsOnlyDigits
    dg_str,       \* the bytes str points to, length of them
    dg_ret,       \* the value returned
    dg_pc         \* "entry", "ret"; "idle" when not in use

pvars == <<stream, pos, buffer, filled, skip_line, prev_cr, current,
           remaining, pc, rd_err, nreads, delivered, earlier>>
csvars == <<cs_line, cs_max, cs_off, cs_len, cs_index, cs_starts,
            cs_lengths, cs_ret, cs_pc>>
rvars == <<assembly_date, original_firmware, insp_open, prod_open,
           insp_lines, prod_lines, tw_pc>>
dgvars == <<dg_str, dg_ret, dg_pc>>
vars == <<pvars, csvars, rvars, dgvars>>

\* ======================================================= SysInfo_ParseText

\* memchr(buf + cur, c, n): offset of the first c in buf[cur .. cur+n-1]
MemChr(buf, cur, c, n) ==
    IF \E i \in cur..(cur + n - 1) : buf[i] = c
    THEN CHOOSE i \in cur..(cur + n - 1) :
            /\ buf[i] = c
            /\ \A j \in cur..(i - 1) : buf[j] # c
    ELSE NULL

\* the n bytes at buf + off, as the consumer sees them
Slice(buf, off, n) == [i \in 1..n |-> buf[off + i - 1]]

\* sizeof(buffer)
SizeofBuffer(buf) == Cardinality(DOMAIN buf)

\* UINT now = sizeof(buffer) - filled
Now(buf, f) == SizeofBuffer(buf) - f

\* ShouldReport without the check for the LF of a CR LF pair
ShouldReport_NoPrevCr(skip, length, found, newline, prevcr) == ~skip

\* the condition guarding line_parser(context, current, length)
ShouldReport(skip, length, found, newline, prevcr) ==
    (~skip) /\ ((length # 0) \/ (found # newline) \/ ~prevcr)

\* InitPS with a buffer of twice the capacity
InitPS_BigBuffer ==
    [pos |-> 0, buffer |-> [i \in 0..(2 * Cap - 1) |-> 0], filled |-> 0,
     skip_line |-> FALSE, prev_cr |-> FALSE, current |-> 0, remaining |-> 0,
     pc |-> "loop", rd_err |-> FALSE, nreads |-> 0, delivered |-> <<>>]

\* the state of one SysInfo_ParseText call, as a record
InitPS ==
    [pos |-> 0, buffer |-> [i \in 0..(Cap - 1) |-> 0], filled |-> 0,
     skip_line |-> FALSE, prev_cr |-> FALSE, current |-> 0, remaining |-> 0,
     pc |-> "loop", rd_err |-> FALSE, nreads |-> 0, delivered |-> <<>>]

\* BufferFullStep that leaves the loop with the full buffer
BufferFullStep_Break(st) == [st EXCEPT !.pc = "flush"]

\* BufferFullStep that forgets filled = 0
BufferFullStep_NoReset(st) == [st EXCEPT !.skip_line = TRUE]

\* if (now == 0) { filled = 0; skip_line = true; continue; }
BufferFullStep(st) ==
    [st EXCEPT !.filled = 0, !.skip_line = TRUE]

\* StoreRead that passes buffer instead of &buffer[filled]
StoreRead_AtStart(st, s, n) ==
    [i \in DOMAIN st.buffer |->
        IF i < n THEN s[st.pos + i + 1] ELSE st.buffer[i]]

\* fvx_read stores n bytes of the file at &buffer[filled]
StoreRead(st, s, n) ==
    [i \in DOMAIN st.buffer |->
        IF i >= st.filled /\ i < st.filled + n
        THEN s[st.pos + (i - st.filled) + 1]
        ELSE st.buffer[i]]

\* ReadStep with prev_cr declared inside the outer loop
ReadStep_LocalPrevCr(st, s, actual) ==
    [st EXCEPT !.buffer = StoreRead(st, s, actual),
               !.pos = @ + actual,
               !.filled = @ + actual,
               !.current = 0,
               !.remaining = st.filled + actual,
               !.nreads = @ + 1,
               !.prev_cr = FALSE,
               !.pc = "scan"]

\* ReadStep that takes a read filling the buffer for a line too long
ReadStep_SkipWhenFilled(st, s, actual) ==
    [st EXCEPT !.buffer = StoreRead(st, s, actual),
               !.pos = @ + actual,
               !.filled = @ + actual,
               !.current = 0,
               !.remaining = st.filled + actual,
               !.nreads = @ + 1,
               !.skip_line = (st.filled + actual = SizeofBuffer(st.buffer)),
               !.pc = "scan"]

\* fvx_read returned FR_OK with actual > 0
ReadStep(st, s, actual) ==
    [st EXCEPT !.buffer = StoreRead(st, s, actual),
               !.pos = @ + actual,
               !.filled = @ + actual,
               !.current = 0,
               !.remaining = st.filled + actual,
               !.nreads = @ + 1,
               !.pc = "scan"]

\* fvx_read returned FR_OK with actual == 0: break
ReadEofStep(st) == [st EXCEPT !.nreads = @ + 1, !.pc = "flush"]

\* ReadErrorStep with filled += actual done before the result is looked at
ReadErrorStep_Counted(st, s, n) ==
    [st EXCEPT !.buffer = StoreRead(st, s, n),
               !.pos = @ + n,
               !.filled = @ + n,
               !.rd_err = TRUE,
               !.nreads = @ + 1,
               !.pc = "flush"]

\* fvx_read failed after transferring n bytes: break before filled += actual
ReadErrorStep(st, s, n) ==
    [st EXCEPT !.buffer = StoreRead(st, s, n),
               !.pos = @ + n,
               !.rd_err = TRUE,
               !.nreads = @ + 1,
               !.pc = "flush"]

\* FoundOf preferring the carriage return whenever there is one
FoundOf_CarriageFirst(carriage, newline) ==
    IF carriage = NULL THEN newline ELSE carriage

\* found: whichever separator came first
FoundOf(carriage, newline) ==
    IF carriage = NULL THEN newline
    ELSE IF newline = NULL THEN carriage
    ELSE Min(carriage, newline)

\* PrevCrOf that never records a carriage return
PrevCrOf_Never(found, carriage) == FALSE

\* prev_cr = (found == carriage)
PrevCrOf(found, carriage) == (found = carriage)

\* ScanStep with if (!carriage || !newline) for the unfinished line
ScanStep_EitherMissing(st) ==
    LET carriage == MemChr(st.buffer, st.current, CR, st.remaining)
        newline  == MemChr(st.buffer, st.current, LF, st.remaining)
    IN  IF carriage = NULL \/ newline = NULL
        THEN [st EXCEPT !.buffer = [i \in DOMAIN st.buffer |->
                                       IF i < st.remaining
                                       THEN st.buffer[st.current + i]
                                       ELSE st.buffer[i]],
                        !.filled = st.remaining,
                        !.pc = "loop"]
        ELSE LET found == FoundOf(carriage, newline)
                 length == found - st.current
             IN  [st EXCEPT
                    !.delivered =
                        IF ShouldReport(st.skip_line, length, found,
                                        newline, st.prev_cr)
                        THEN Append(@, Slice(st.buffer, st.current, length))
                        ELSE @,
                    !.skip_line = FALSE,
                    !.prev_cr = PrevCrOf(found, carriage),
                    !.remaining = @ - ((found + 1) - st.current),
                    !.current = found + 1]

\* ScanStep that does not clear skip_line
ScanStep_KeepSkip(st) ==
    LET carriage == MemChr(st.buffer, st.current, CR, st.remaining)
        newline  == MemChr(st.buffer, st.current, LF, st.remaining)
    IN  IF carriage = NULL /\ newline = NULL
        THEN [st EXCEPT !.buffer = [i \in DOMAIN st.buffer |->
                                       IF i < st.remaining
                                       THEN st.buffer[st.current + i]
                                       ELSE st.buffer[i]],
                        !.filled = st.remaining,
                        !.pc = "loop"]
        ELSE LET found == FoundOf(carriage, newline)
                 length == found - st.current
             IN  [st EXCEPT
                    !.delivered =
                        IF ShouldReport(st.skip_line, length, found,
                                        newline, st.prev_cr)
                        THEN Append(@, Slice(st.buffer, st.current, length))
                        ELSE @,
                    !.prev_cr = PrevCrOf(found, carriage),
                    !.remaining = @ - ((found + 1) - st.current),
                    !.current = found + 1]

\* one pass of the inner for (;;)
ScanStep(st) ==
    LET carriage == MemChr(st.buffer, st.current, CR, st.remaining)
        newline  == MemChr(st.buffer, st.current, LF, st.remaining)
    IN  IF carriage = NULL /\ newline = NULL
        THEN \* memmove(buffer, current, remaining); filled = remaining
             [st EXCEPT !.buffer = [i \in DOMAIN st.buffer |->
                                       IF i < st.remaining
                                       THEN st.buffer[st.current + i]
                                       ELSE st.buffer[i]],
                        !.filled = st.remaining,
                        !.pc = "loop"]
        ELSE LET found == FoundOf(carriage, newline)
                 length == found - st.current
             IN  [st EXCEPT
                    !.delivered =
                        IF ShouldReport(st.skip_line, length, found,
                                        newline, st.prev_cr)
                        THEN Append(@, Slice(st.buffer, st.current, length))
                        ELSE @,
                    !.skip_line = FALSE,
                    !.prev_cr = PrevCrOf(found, carriage),
                    !.remaining = @ - ((found + 1) - st.current),
                    !.current = found + 1]

\* if (filled > 0) line_parser(context, buffer, filled); return
FlushStep(st) ==
    [st EXCEPT !.delivered = IF st.filled > 0
                             THEN Append(@, Slice(st.buffer, 0, st.filled))
                             ELSE @,
               !.pc = "done"]

PS == [pos |-> pos, buffer |-> buffer, filled |-> filled,
       skip_line |-> skip_line, prev_cr |-> prev_cr, current |-> current,
       remaining |-> remaining, pc |-> pc, rd_err |-> rd_err,
       nreads |-> nreads, delivered |-> delivered]

SetPS(st) ==
    /\ pos' = st.pos
    /\ buffer' = st.buffer
    /\ filled' = st.filled
    /\ skip_line' = st.skip_line
    /\ prev_cr' = st.prev_cr
    /\ current' = st.current
    /\ remaining' = st.remaining
    /\ pc' = st.pc
    /\ rd_err' = st.rd_err
    /\ nreads' = st.nreads
    /\ delivered' = st.delivered
    /\ UNCHANGED <<stream, earlier>>

\* a pass of the outer loop that finds the buffer full
BufferFull ==
    /\ pc = "loop"
    /\ Now(buffer, filled) = 0
    /\ SetPS(BufferFullStep(PS))
    /\ UNCHANGED <<csvars, rvars, dgvars>>

\* a pass whose fvx_read returns actual > 0 bytes, at most now
ReadChunk ==
    /\ pc = "loop"
    /\ Now(buffer, filled) # 0
    /\ \E actual \in 1..Min(Now(buffer, filled), Len(stream) - pos) :
          SetPS(ReadStep(PS, stream, actual))
    /\ UNCHANGED <<csvars, rvars, dgvars>>

\* a pass whose fvx_read finds the end of the file
ReadEof ==
    /\ pc = "loop"
    /\ Now(buffer, filled) # 0
    /\ pos = Len(stream)
    /\ SetPS(ReadEofStep(PS))
    /\ UNCHANGED <<csvars, rvars, dgvars>>

\* a pass whose fvx_read fails, having transferred n bytes or none
ReadError ==
    /\ pc = "loop"
    /\ Now(buffer, filled) # 0
    /\ \E n \in 0..Min(Now(buffer, filled), Len(stream) - pos) :
          SetPS(ReadErrorStep(PS, stream, n))
    /\ UNCHANGED <<csvars, rvars, dgvars>>

\* a pass of the inner loop
Scan ==
    /\ pc = "scan"
    /\ SetPS(ScanStep(PS))
    /\ UNCHANGED <<csvars, rvars, dgvars>>

\* the code after the outer loop
Flush ==
    /\ pc = "flush"
    /\ SetPS(FlushStep(PS))
    /\ UNCHANGED <<csvars, rvars, dgvars>>

\* ====================================================== SysInfo_CommaSplit

\* a[i] = v, the other cells as they were
Store(a, i, v) ==
    [j \in (DOMAIN a) \cup {i} |-> IF j = i THEN v ELSE a[j]]

\* memchr(line, ',', line_length), as an offset within the line s
CommaAt(s, off, len) ==
    IF \E i \in off..(off + len - 1) : s[i + 1] = COMMA
    THEN CHOOSE i \in off..(off + len - 1) :
            /\ s[i + 1] = COMMA
            /\ \A j \in off..(i - 1) : s[j + 1] # COMMA
    ELSE NULL

\* IsLastEntry comparing index with max_entries instead of max_entries - 1
IsLastEntry_OffByOne(comma, index, max) == (comma = NULL) \/ (index = max)

\* if (!comma || (index == max_entries - 1)): this entry is the last one
IsLastEntry(comma, index, max) == (comma = NULL) \/ (index = max - 1)

\* LastLength that ends the last entry at the next comma
LastLength_ToComma(comma, off, len) ==
    IF comma = NULL THEN len ELSE comma - off

\* lengths[index] of the last entry
LastLength(comma, off, len) == len

\* if (max_entries == 0) return 0;
SplitNone ==
    /\ cs_pc = "entry"
    /\ cs_max = 0
    /\ cs_ret' = 0
    /\ cs_pc' = "ret"
    /\ UNCHANGED <<cs_line, cs_max, cs_off, cs_len, cs_index, cs_starts,
                   cs_lengths>>
    /\ UNCHANGED <<pvars, rvars, dgvars>>

\* max_entries != 0: enter the for (;;)
SplitEnter ==
    /\ cs_pc = "entry"
    /\ cs_max # 0
    /\ cs_pc' = "loop"
    /\ UNCHANGED <<cs_line, cs_max, cs_off, cs_len, cs_index, cs_starts,
                   cs_lengths, cs_ret>>
    /\ UNCHANGED <<pvars, rvars, dgvars>>

\* a pass of the loop that returns
SplitLast ==
    /\ cs_pc = "loop"
    /\ LET comma == CommaAt(cs_line, cs_off, cs_len)
       IN  /\ IsLastEntry(comma, cs_index, cs_max)
           /\ cs_starts' = Store(cs_starts, cs_index, cs_off)
           /\ cs_lengths' = Store(cs_lengths, cs_index,
                                  LastLength(comma, cs_off, cs_len))
           /\ cs_ret' = cs_index + 1
           /\ cs_pc' = "ret"
    /\ UNCHANGED <<cs_line, cs_max, cs_off, cs_len, cs_index>>
    /\ UNCHANGED <<pvars, rvars, dgvars>>

\* a pass of the loop that adds an entry and skips over the comma
SplitEntry ==
    /\ cs_pc = "loop"
    /\ LET comma == CommaAt(cs_line, cs_off, cs_len)
       IN  /\ ~IsLastEntry(comma, cs_index, cs_max)
           /\ cs_starts' = Store(cs_starts, cs_index, cs_off)
           /\ cs_lengths' = Store(cs_lengths, cs_index, comma - cs_off)
           /\ cs_index' = cs_index + 1
           /\ cs_len' = cs_len - (1 + comma - cs_off)
           /\ cs_off' = comma + 1
    /\ UNCHANGED <<cs_line, cs_max, cs_ret, cs_pc>>
    /\ UNCHANGED <<pvars, rvars, dgvars>>

\* GetSysInfo_TWLN and the line parsers are not running
RIdle ==
    /\ assembly_date = <<>>
    /\ original_firmware = <<>>
    /\ insp_open = FALSE
    /\ prod_open = FALSE
    /\ insp_lines = <<>>
    /\ prod_lines = <<>>
    /\ tw_pc = "idle"

\* SysInfo_IsOnlyDigits is not running
DgIdle ==
    /\ dg_str = <<>>
    /\ dg_ret = FALSE
    /\ dg_pc = "idle"

\* SysInfo_ParseText is not running
PsIdle ==
    /\ stream = <<>>
    /\ pos = InitPS.pos
    /\ buffer = InitPS.buffer
    /\ filled = InitPS.filled
    /\ skip_line = InitPS.skip_line
    /\ prev_cr = InitPS.prev_cr
    /\ current = InitPS.current
    /\ remaining = InitPS.remaining
    /\ pc = "done"
    /\ rd_err = InitPS.rd_err
    /\ nreads = InitPS.nreads
    /\ delivered = InitPS.delivered
    /\ earlier = <<>>

\* a call SysInfo_CommaSplit(starts, lengths, max_entries, line, line_length)
InitSplit ==
    /\ cs_line \in SeqsUpTo(LineAlphabet, MaxLine)
    /\ cs_max \in 0..MaxEntries
    /\ cs_off = 0
    /\ cs_len = Len(cs_line)
    /\ cs_index = 0
    /\ cs_starts = <<>>
    /\ cs_lengths = <<>>
    /\ cs_ret = 0
    /\ cs_pc = "entry"
    /\ PsIdle
    /\ RIdle
    /\ DgIdle

NextSplit ==
    \/ SplitNone
    \/ SplitEnter
    \/ SplitLast
    \/ SplitEntry

SpecSplit == InitSplit /\ [][NextSplit]_vars

\* ===================== SysInfo_ParseText: initial state and specification

\* SysInfo_CommaSplit is not running
CsIdle ==
    /\ cs_line = <<>>
    /\ cs_max = 0
    /\ cs_off = 0
    /\ cs_len = 0
    /\ cs_index = 0
    /\ cs_starts = <<>>
    /\ cs_lengths = <<>>
    /\ cs_ret = 0
    /\ cs_pc = "idle"

Init ==
    /\ stream \in SeqsUpTo(Alphabet, MaxStream)
    /\ pos = InitPS.pos
    /\ buffer = InitPS.buffer
    /\ filled = InitPS.filled
    /\ skip_line = InitPS.skip_line
    /\ prev_cr = InitPS.prev_cr
    /\ current = InitPS.current
    /\ remaining = InitPS.remaining
    /\ pc = InitPS.pc
    /\ rd_err = InitPS.rd_err
    /\ nreads = InitPS.nreads
    /\ delivered = InitPS.delivered
    /\ earlier = <<>>
    /\ CsIdle
    /\ RIdle
    /\ DgIdle

Next ==
    \/ BufferFull
    \/ ReadChunk
    \/ ReadEof
    \/ ReadError
    \/ Scan
    \/ Flush

Spec == Init /\ [][Next]_vars

\* The function is one sequential routine: it keeps running until it
\* returns.  Its control flow tells a byte apart only as CR, LF or other, so
\* the runs are taken over streams with a single content byte.
InitTerm ==
    /\ Init
    /\ stream \in SeqsUpTo(TermAlphabet, MaxStream)

FairSpec == InitTerm /\ [][Next]_vars /\ WF_vars(Next)

TypeOK ==
    /\ pos \in 0..Len(stream)
    /\ filled \in 0..Cap
    /\ DOMAIN buffer = 0..(Cap - 1)
    /\ pc \in {"loop", "scan", "flush", "done"}

\* ==================================================== SysInfo_IsOnlyDigits

\* isdigit that also takes ':' for a digit
IsDigit_Wide(c) == c >= 48 /\ c <= 58

\* isdigit((unsigned char) c)
IsDigit(c) == c >= 48 /\ c <= 57

\* for (; length > 0; ++str, --length) if (!isdigit(*str)) return false;
\* return true;
RECURSIVE IsOnlyDigits(_, _)
IsOnlyDigits(str, length) ==
    IF length > 0
    THEN IF ~IsDigit(Head(str)) THEN FALSE
         ELSE IsOnlyDigits(Tail(str), length - 1)
    ELSE TRUE

\* the call SysInfo_IsOnlyDigits(str, length)
DigitsCall ==
    /\ dg_pc = "entry"
    /\ dg_ret' = IsOnlyDigits(dg_str, Len(dg_str))
    /\ dg_pc' = "ret"
    /\ UNCHANGED dg_str
    /\ UNCHANGED <<pvars, csvars, rvars>>

InitDigits ==
    /\ dg_str \in SeqsUpTo(DigitAlphabet, MaxDigits)
    /\ dg_ret = FALSE
    /\ dg_pc = "entry"
    /\ PsIdle
    /\ CsIdle
    /\ RIdle

NextDigits == DigitsCall

SpecDigits == InitDigits /\ [][NextDigits]_vars

\* ============================================= SysInfoLineParser_InspectLog

\* "CommentUpdated="
S_CommentUpdated ==
    <<67, 111, 109, 109, 101, 110, 116, 85, 112, 100, 97, 116, 101, 100,
      61>>
\* "<unknown>"
S_Unknown ==
    <<60, 117, 110, 107, 110, 111, 119, 110, 62>>

\* what follows "CommentUpdated=" in the lines tried: nothing, two dates, and
\* 19, 20 and 25 distinct bytes
InspectRemainders ==
    {<<>>,
     <<50, 48, 50, 48>>,
     <<50, 48, 50, 49>>,
     <<48, 49, 50, 51, 52, 53, 54, 55, 56, 57, 97, 98, 99, 100, 101, 102,
       103, 104, 105>>,
     <<48, 49, 50, 51, 52, 53, 54, 55, 56, 57, 97, 98, 99, 100, 101, 102,
       103, 104, 105, 106>>,
     <<48, 49, 50, 51, 52, 53, 54, 55, 56, 57, 97, 98, 99, 100, 101, 102,
       103, 104, 105, 106, 75, 76, 77, 78, 79>>}

\* lines that do not begin with "CommentUpdated=": the empty line, X=1,
\* noise, the prefix cut short by a byte, the prefix with its last byte
\* changed, and the prefix after a space
InspectOtherLines ==
    {<<>>,
     <<88, 61, 49>>,
     <<110, 111, 105, 115, 101>>,
     <<67, 111, 109, 109, 101, 110, 116, 85, 112, 100, 97, 116, 101, 100>>,
     <<67, 111, 109, 109, 101, 110, 116, 85, 112, 100, 97, 116, 101, 100,
       58, 50, 48, 50, 48>>,
     <<32, 67, 111, 109, 109, 101, 110, 116, 85, 112, 100, 97, 116, 101,
       100, 61, 50, 48, 50, 48>>}

InspectLines ==
    {S_CommentUpdated \o r : r \in InspectRemainders} \cup InspectOtherLines

\* bytes a field may hold before it is first written
JunkBytes == {0, 90}

\* a char array of n cells whose content was never set
RawField(n, junk) == [i \in 0..(n - 1) |-> junk]

\* memcpy(&dst[off], src, n): cells written beyond the array extend it
MemCpy(dst, off, src, n) ==
    [j \in (DOMAIN dst) \cup (off..(off + n - 1)) |->
        IF j >= off /\ j < off + n THEN src[j - off + 1] ELSE dst[j]]

\* StrNCpy that copies the bytes of src without the terminator
StrNCpy_NoTerminator(dst, src, n) ==
    [j \in (DOMAIN dst) \cup (0..(n - 1)) |->
        IF j < Len(src) THEN src[j + 1] ELSE dst[j]]

\* strncpy(dst, src, n) for a src of fewer than n bytes
StrNCpy(dst, src, n) ==
    [j \in (DOMAIN dst) \cup (0..(n - 1)) |->
        IF j < Len(src) THEN src[j + 1]
        ELSE IF j < n THEN 0
        ELSE dst[j]]

\* the C string a field holds: its bytes before the first NUL
CStr(f) ==
    IF \E i \in DOMAIN f : f[i] = 0
    THEN LET z == CHOOSE i \in DOMAIN f :
                     f[i] = 0 /\ \A j \in DOMAIN f : j < i => f[j] # 0
         IN  [i \in 1..z |-> f[i - 1]]
    ELSE [i \in 1..Cardinality(DOMAIN f) |-> f[i - 1]]

\* InspectMatches with the memcmp one byte short
InspectMatches_ShortCmp(line, length) ==
    /\ ~(length < Len(S_CommentUpdated))
    /\ SubSeq(line, 1, Len(S_CommentUpdated) - 1)
          = SubSeq(S_CommentUpdated, 1, Len(S_CommentUpdated) - 1)

\* neither of the two early returns is taken
InspectMatches(line, length) ==
    /\ ~(length < Len(S_CommentUpdated))
    /\ SubSeq(line, 1, Len(S_CommentUpdated)) = S_CommentUpdated

\* InspectCopyLen that leaves no room for the terminator
InspectCopyLen_NoRoom(length, size) == Min(length, size)

\* length = min(length, countof(info->assembly_date) - 1)
InspectCopyLen(length, size) == Min(length, size - 1)

\* SysInfoLineParser_InspectLog(info, line, length): info->assembly_date after
InspectLog(date, line) ==
    IF ~InspectMatches(line, Len(line)) THEN date
    ELSE LET rest   == SubSeq(line, Len(S_CommentUpdated) + 1, Len(line))
             length == InspectCopyLen(Len(line) - Len(S_CommentUpdated),
                                      AssemblyDateSize)
         IN  Store(MemCpy(date, 0, rest, length), length, 0)

\* line_parser(context, p, n) with SysInfoLineParser_InspectLog as the parser:
\* SysInfo_ParseText passes it one more line, here any line of L
FeedInspect(L) ==
    /\ tw_pc = "inspect"
    /\ Len(insp_lines) < MaxInspectCalls
    /\ \E line \in L :
          /\ assembly_date' = InspectLog(assembly_date, line)
          /\ insp_lines' = Append(insp_lines, line)
    /\ UNCHANGED <<original_firmware, insp_open, prod_open, prod_lines,
                   tw_pc>>
    /\ UNCHANGED <<pvars, csvars, dgvars>>

\* the fields as GetSysInfo_TWLN sets them before it opens a file
SentinelField(n, junk) ==
    StrNCpy(RawField(n, junk), S_Unknown, Len(S_Unknown) + 1)

\* inspect.log is open and SysInfo_ParseText is about to feed its lines
InitInspect ==
    /\ \E junk \in JunkBytes :
          /\ assembly_date = SentinelField(AssemblyDateSize, junk)
          /\ original_firmware = SentinelField(OriginalFirmwareSize, junk)
    /\ insp_open = TRUE
    /\ prod_open = FALSE
    /\ insp_lines = <<>>
    /\ prod_lines = <<>>
    /\ tw_pc = "inspect"
    /\ PsIdle
    /\ CsIdle
    /\ DgIdle

NextInspect == FeedInspect(InspectLines)

SpecInspect == InitInspect /\ [][NextInspect]_vars

\* ============================================= SysInfoLineParser_ProductLog

\* "DataList"
S_DataList == <<68, 97, 116, 97, 76, 105, 115, 116>>
\* "OK"
S_OK == <<79, 75>>
\* "nup:"
S_Nup == <<110, 117, 112, 58>>
\* "cup:"
S_Cup == <<99, 117, 112, 58>>
\* "1,DataList,OK,a,b,c,d,": seven entries of a good record
S_RecordHead ==
    <<49, 44, 68, 97, 116, 97, 76, 105, 115, 116, 44, 79, 75, 44, 97, 44,
      98, 44, 99, 44, 100, 44>>

\* eighth entries tried after S_RecordHead
ProductVerInfos ==
    {
     \* "nup:20U cup:9.0.0 preInstall:RA1"
     <<110, 117, 112, 58, 50, 48, 85, 32, 99, 117, 112, 58, 57, 46, 48, 46,
       48, 32, 112, 114, 101, 73, 110, 115, 116, 97, 108, 108, 58, 82, 65,
       49>>,
     \* "nup:1 cup:2"
     <<110, 117, 112, 58, 49, 32, 99, 117, 112, 58, 50>>,
     \* "nup:A  cup:B"
     <<110, 117, 112, 58, 65, 32, 32, 99, 117, 112, 58, 66>>,
     \* "nup:1234567 cup:7654321"
     <<110, 117, 112, 58, 49, 50, 51, 52, 53, 54, 55, 32, 99, 117, 112, 58,
       55, 54, 53, 52, 51, 50, 49>>,
     \* "nup:1234567 cup:87654321"
     <<110, 117, 112, 58, 49, 50, 51, 52, 53, 54, 55, 32, 99, 117, 112, 58,
       56, 55, 54, 53, 52, 51, 50, 49>>,
     \* "nup: cup:"
     <<110, 117, 112, 58, 32, 99, 117, 112, 58>>,
     \* "nup:20Ucup:9.0.0"
     <<110, 117, 112, 58, 50, 48, 85, 99, 117, 112, 58, 57, 46, 48, 46, 48>>,
     \* "nup:20U  cop:9"
     <<110, 117, 112, 58, 50, 48, 85, 32, 32, 99, 111, 112, 58, 57>>,
     \* "nux:20U cup:9.0.0"
     <<110, 117, 120, 58, 50, 48, 85, 32, 99, 117, 112, 58, 57, 46, 48, 46,
       48>>,
     \* "nup:20U"
     <<110, 117, 112, 58, 50, 48, 85>>,
     \* "nup:20U "
     <<110, 117, 112, 58, 50, 48, 85, 32>>,
     \* "nup"
     <<110, 117, 112>>}

\* other lines tried: records with one thing wrong before the eighth entry,
\* and a good record of twelve entries
ProductOtherLines ==
    {
     \* ""
     <<>>,
     \* "1"
     <<49>>,
     \* ",DataList,OK,a,b,c,d,nup:1 cup:2"
     <<44, 68, 97, 116, 97, 76, 105, 115, 116, 44, 79, 75, 44, 97, 44, 98,
       44, 99, 44, 100, 44, 110, 117, 112, 58, 49, 32, 99, 117, 112, 58,
       50>>,
     \* "1a,DataList,OK,a,b,c,d,nup:1 cup:2"
     <<49, 97, 44, 68, 97, 116, 97, 76, 105, 115, 116, 44, 79, 75, 44, 97,
       44, 98, 44, 99, 44, 100, 44, 110, 117, 112, 58, 49, 32, 99, 117,
       112, 58, 50>>,
     \* "1,DataLisu,OK,a,b,c,d,nup:1 cup:2"
     <<49, 44, 68, 97, 116, 97, 76, 105, 115, 117, 44, 79, 75, 44, 97, 44,
       98, 44, 99, 44, 100, 44, 110, 117, 112, 58, 49, 32, 99, 117, 112,
       58, 50>>,
     \* "1,Data,OK,a,b,c,d,nup:1 cup:2"
     <<49, 44, 68, 97, 116, 97, 44, 79, 75, 44, 97, 44, 98, 44, 99, 44,
       100, 44, 110, 117, 112, 58, 49, 32, 99, 117, 112, 58, 50>>,
     \* "1,DataList,NG,a,b,c,d,nup:1 cup:2"
     <<49, 44, 68, 97, 116, 97, 76, 105, 115, 116, 44, 78, 71, 44, 97, 44,
       98, 44, 99, 44, 100, 44, 110, 117, 112, 58, 49, 32, 99, 117, 112,
       58, 50>>,
     \* "1,DataList,OKK,a,b,c,d,nup:1 cup:2"
     <<49, 44, 68, 97, 116, 97, 76, 105, 115, 116, 44, 79, 75, 75, 44, 97,
       44, 98, 44, 99, 44, 100, 44, 110, 117, 112, 58, 49, 32, 99, 117,
       112, 58, 50>>,
     \* "1,DataList,OK,a,b,nup:1 cup:2"
     <<49, 44, 68, 97, 116, 97, 76, 105, 115, 116, 44, 79, 75, 44, 97, 44,
       98, 44, 110, 117, 112, 58, 49, 32, 99, 117, 112, 58, 50>>,
     \* "12,DataList,OK,a,b,c,d,nup:3 cup:4,x,y,z,w"
     <<49, 50, 44, 68, 97, 116, 97, 76, 105, 115, 116, 44, 79, 75, 44, 97,
       44, 98, 44, 99, 44, 100, 44, 110, 117, 112, 58, 51, 32, 99, 117,
       112, 58, 52, 44, 120, 44, 121, 44, 122, 44, 119>>}

ProductLines ==
    {S_RecordHead \o v : v \in ProductVerInfos} \cup ProductOtherLines

\* the for (;;) of SysInfo_CommaSplit run to its return
RECURSIVE CommaSplitLoop(_, _, _, _, _, _, _)
CommaSplitLoop(line, max, off, len, index, starts, lengths) ==
    LET comma == CommaAt(line, off, len)
    IN  IF IsLastEntry(comma, index, max)
        THEN [count |-> index + 1,
              starts |-> Store(starts, index, off),
              lengths |-> Store(lengths, index,
                                LastLength(comma, off, len))]
        ELSE CommaSplitLoop(line, max, comma + 1,
                            len - (1 + comma - off), index + 1,
                            Store(starts, index, off),
                            Store(lengths, index, comma - off))

\* SysInfo_CommaSplit(starts, lengths, max_entries, line, line_length)
CommaSplit(max, line) ==
    IF max = 0 THEN [count |-> 0, starts |-> <<>>, lengths |-> <<>>]
    ELSE CommaSplitLoop(line, max, 0, Len(line), 0, <<>>, <<>>)

\* the n bytes at offset off of the byte sequence v
Bytes(v, off, n) == SubSeq(v, off + 1, off + n)

\* (remaining < 4) || (memcmp(verinfo, tag, 4) != 0) is false
HasTag(v, off, tag) ==
    /\ ~(Len(v) - off < 4)
    /\ Bytes(v, off, 4) = tag

\* while ((remaining > 0) && (*verinfo != ' ')) { ++verinfo; --remaining; }
RECURSIVE ToSpace(_, _)
ToSpace(v, off) ==
    IF Len(v) - off > 0 /\ v[off + 1] # SPACE THEN ToSpace(v, off + 1)
    ELSE off

\* while ((remaining > 0) && (*verinfo == ' ')) { ++verinfo; --remaining; }
RECURSIVE OverSpaces(_, _)
OverSpaces(v, off) ==
    IF Len(v) - off > 0 /\ v[off + 1] = SPACE THEN OverSpaces(v, off + 1)
    ELSE off

\* ProductStatusOk that does not look at the third entry
ProductStatusOk_AnyStatus(count, length2, entry2) == ~(count < 8)

\* (entry_count < 8) || (entry_lengths[2] != 2) || memcmp(.., "OK", 2) != 0
\* is false
ProductStatusOk(count, length2, entry2) ==
    ~((count < 8) \/ (length2 # 2) \/ (entry2 # S_OK))

\* ProductFits that forgets the terminator
ProductFits_NoTerminator(cup_length, nup_length, size) ==
    ~(cup_length + 1 + nup_length > size)

\* cup_length + 1 + nup_length + 1 > countof(info->original_firmware) is
\* false.  The two checks before it guard the sum against wrapping around
\* SIZE_MAX; both lengths are parts of one line, so neither can return.
ProductFits(cup_length, nup_length, size) ==
    ~(cup_length + 1 + nup_length + 1 > size)

\* ProductCompose with the two values in the other order
ProductCompose_NupFirst(fw, cup, nup) ==
    Store(MemCpy(Store(MemCpy(fw, 0, nup, Len(nup)), Len(nup), DASH),
                 Len(nup) + 1, cup, Len(cup)),
          Len(nup) + 1 + Len(cup), 0)

\* the two memcpy and the two stores into info->original_firmware
ProductCompose(fw, cup, nup) ==
    Store(MemCpy(Store(MemCpy(fw, 0, cup, Len(cup)), Len(cup), DASH),
                 Len(cup) + 1, nup, Len(nup)),
          Len(cup) + 1 + Len(nup), 0)

\* the part of SysInfoLineParser_ProductLog that reads entries[7]
ProductVerInfo(fw, v) ==
    IF ~HasTag(v, 0, S_Nup) THEN fw
    ELSE LET nup_start == 4
             nup_end   == ToSpace(v, nup_start)
             at_cup    == OverSpaces(v, nup_end)
         IN  IF ~HasTag(v, at_cup, S_Cup) THEN fw
             ELSE LET cup_start == at_cup + 4
                      cup_end   == ToSpace(v, cup_start)
                      nup_length == nup_end - nup_start
                      cup_length == cup_end - cup_start
                  IN  IF ~ProductFits(cup_length, nup_length,
                                      OriginalFirmwareSize)
                      THEN fw
                      ELSE ProductCompose(fw,
                                          Bytes(v, cup_start, cup_length),
                                          Bytes(v, nup_start, nup_length))

\* SysInfoLineParser_ProductLog(info, line, length): info->original_firmware
\* after the call
ProductLog(fw, line) ==
    LET sp == CommaSplit(ProductMaxEntries, line)
        entry(i) == Bytes(line, sp.starts[i], sp.lengths[i])
    IN  IF sp.count < 2 THEN fw
        ELSE IF (sp.lengths[0] = 0)
                  \/ ~IsOnlyDigits(entry(0), sp.lengths[0]) THEN fw
        ELSE IF ~((sp.lengths[1] = 8) /\ (entry(1) = S_DataList)) THEN fw
        ELSE IF ~ProductStatusOk(sp.count,
                                 IF sp.count > 2 THEN sp.lengths[2] ELSE 0,
                                 IF sp.count > 2 THEN entry(2) ELSE <<>>)
             THEN fw
        ELSE ProductVerInfo(fw, entry(7))

\* line_parser(context, p, n) with SysInfoLineParser_ProductLog as the parser:
\* SysInfo_ParseText passes it one more line, here any line of L
FeedProduct(L) ==
    /\ tw_pc = "product"
    /\ Len(prod_lines) < MaxProductCalls
    /\ \E line \in L :
          /\ original_firmware' = ProductLog(original_firmware, line)
          /\ prod_lines' = Append(prod_lines, line)
    /\ UNCHANGED <<assembly_date, insp_open, prod_open, insp_lines, tw_pc>>
    /\ UNCHANGED <<pvars, csvars, dgvars>>

\* product.log is open and SysInfo_ParseText is about to feed its lines
InitProduct ==
    /\ \E junk \in JunkBytes :
          /\ assembly_date = SentinelField(AssemblyDateSize, junk)
          /\ original_firmware = SentinelField(OriginalFirmwareSize, junk)
    /\ insp_open = FALSE
    /\ prod_open = TRUE
    /\ insp_lines = <<>>
    /\ prod_lines = <<>>
    /\ tw_pc = "product"
    /\ PsIdle
    /\ CsIdle
    /\ DgIdle

NextProduct == FeedProduct(ProductLines)

SpecProduct == InitProduct /\ [][NextProduct]_vars

\* ========================================================= GetSysInfo_TWLN

\* lines either log may hold: a tag line, noise, a record that fits, a
\* record one byte too long for the field, and a record that is not OK
TwlnLines ==
    {
     \* "CommentUpdated=2020"
     <<67, 111, 109, 109, 101, 110, 116, 85, 112, 100, 97, 116, 101, 100,
       61, 50, 48, 50, 48>>,
     \* "noise"
     <<110, 111, 105, 115, 101>>,
     \* "1,DataList,OK,a,b,c,d,nup:20U cup:9.0.0 preInstall:RA1"
     <<49, 44, 68, 97, 116, 97, 76, 105, 115, 116, 44, 79, 75, 44, 97, 44,
       98, 44, 99, 44, 100, 44, 110, 117, 112, 58, 50, 48, 85, 32, 99, 117,
       112, 58, 57, 46, 48, 46, 48, 32, 112, 114, 101, 73, 110, 115, 116,
       97, 108, 108, 58, 82, 65, 49>>,
     \* "1,DataList,OK,a,b,c,d,nup:1234567 cup:87654321"
     <<49, 44, 68, 97, 116, 97, 76, 105, 115, 116, 44, 79, 75, 44, 97, 44,
       98, 44, 99, 44, 100, 44, 110, 117, 112, 58, 49, 50, 51, 52, 53, 54,
       55, 32, 99, 117, 112, 58, 56, 55, 54, 53, 52, 51, 50, 49>>,
     \* "1,DataList,NG,a,b,c,d,nup:1 cup:2"
     <<49, 44, 68, 97, 116, 97, 76, 105, 115, 116, 44, 78, 71, 44, 97, 44,
       98, 44, 99, 44, 100, 44, 110, 117, 112, 58, 49, 32, 99, 117, 112,
       58, 50>>}

\* the two strncpy of "<unknown>" into the fields
TwlnSentinels ==
    /\ tw_pc = "init"
    /\ assembly_date' = StrNCpy(assembly_date, S_Unknown, Len(S_Unknown) + 1)
    /\ original_firmware'
          = StrNCpy(original_firmware, S_Unknown, Len(S_Unknown) + 1)
    /\ tw_pc' = "inspect_open"
    /\ UNCHANGED <<insp_open, prod_open, insp_lines, prod_lines>>
    /\ UNCHANGED <<pvars, csvars, dgvars>>

\* fvx_open(&file, inspect_path, ...) returns FR_OK or not
TwlnOpenInspect ==
    /\ tw_pc = "inspect_open"
    /\ \E ok \in BOOLEAN :
          /\ insp_open' = ok
          /\ tw_pc' = IF ok THEN "inspect" ELSE "product_open"
    /\ UNCHANGED <<assembly_date, original_firmware, prod_open, insp_lines,
                   prod_lines>>
    /\ UNCHANGED <<pvars, csvars, dgvars>>

\* SysInfo_ParseText returns from inspect.log; fvx_close(&file)
TwlnCloseInspect ==
    /\ tw_pc = "inspect"
    /\ tw_pc' = "product_open"
    /\ UNCHANGED <<assembly_date, original_firmware, insp_open, prod_open,
                   insp_lines, prod_lines>>
    /\ UNCHANGED <<pvars, csvars, dgvars>>

\* fvx_open(&file, product_path, ...) returns FR_OK or not
TwlnOpenProduct ==
    /\ tw_pc = "product_open"
    /\ \E ok \in BOOLEAN :
          /\ prod_open' = ok
          /\ tw_pc' = IF ok THEN "product" ELSE "done"
    /\ UNCHANGED <<assembly_date, original_firmware, insp_open, insp_lines,
                   prod_lines>>
    /\ UNCHANGED <<pvars, csvars, dgvars>>

\* SysInfo_ParseText returns from product.log; fvx_close(&file); return
TwlnCloseProduct ==
    /\ tw_pc = "product"
    /\ tw_pc' = "done"
    /\ UNCHANGED <<assembly_date, original_firmware, insp_open, prod_open,
                   insp_lines, prod_lines>>
    /\ UNCHANGED <<pvars, csvars, dgvars>>

\* the call GetSysInfo_TWLN(info, nand_drive) on a structure whose two
\* fields hold whatever they held before
InitTwln ==
    /\ \E junk \in JunkBytes :
          /\ assembly_date = RawField(AssemblyDateSize, junk)
          /\ original_firmware = RawField(OriginalFirmwareSize, junk)
    /\ insp_open = FALSE
    /\ prod_open = FALSE
    /\ insp_lines = <<>>
    /\ prod_lines = <<>>
    /\ tw_pc = "init"
    /\ PsIdle
    /\ CsIdle
    /\ DgIdle

NextTwln ==
    \/ TwlnSentinels
    \/ TwlnOpenInspect
    \/ FeedInspect(TwlnLines)
    \/ TwlnCloseInspect
    \/ TwlnOpenProduct
    \/ FeedProduct(TwlnLines)
    \/ TwlnCloseProduct

SpecTwln == InitTwln /\ [][NextTwln]_vars

\* ====================================== SysInfo_ParseText, called once more

\* EnterPS with filled, skip_line and prev_cr declared static
EnterPS_StaticLocals(st, b) ==
    [InitPS EXCEPT !.buffer = b,
                   !.filled = st.filled,
                   !.skip_line = st.skip_line,
                   !.prev_cr = st.prev_cr]

\* The locals at the entry of a call made after a call that ended in st:
\* filled, skip_line and prev_cr are automatic variables with an
\* initializer; buffer has none, and its cells hold the bytes b the stack
\* was left with.
EnterPS(st, b) == [InitPS EXCEPT !.buffer = b]

\* GetSysInfo_TWLN calls SysInfo_ParseText on product.log after the call
\* on inspect.log has returned, with or without a read error.  The new
\* call has its own file and its own consumer.  The cells of its buffer
\* are indeterminate: the bytes of the earlier call or others.
CallAgain ==
    /\ pc = "done"
    /\ earlier = <<>>
    /\ \E s \in SeqsUpTo(TermAlphabet, MaxAgain) :
       \E b \in {buffer, InitPS.buffer} :
          /\ stream' = s
          /\ earlier' = Append(earlier, stream)
          /\ pos' = EnterPS(PS, b).pos
          /\ buffer' = EnterPS(PS, b).buffer
          /\ filled' = EnterPS(PS, b).filled
          /\ skip_line' = EnterPS(PS, b).skip_line
          /\ prev_cr' = EnterPS(PS, b).prev_cr
          /\ current' = EnterPS(PS, b).current
          /\ remaining' = EnterPS(PS, b).remaining
          /\ pc' = EnterPS(PS, b).pc
          /\ rd_err' = EnterPS(PS, b).rd_err
          /\ nreads' = EnterPS(PS, b).nreads
          /\ delivered' = EnterPS(PS, b).delivered
    /\ UNCHANGED <<csvars, rvars, dgvars>>

InitAgain ==
    /\ Init
    /\ stream \in SeqsUpTo(TermAlphabet, MaxEarlier)

NextAgain ==
    \/ Next
    \/ CallAgain

SpecAgain == InitAgain /\ [][NextAgain]_vars

\* =============================================== what a run of the parser is

\* SysInfo_ParseText run to its return over the file content s, every read
\* returning min(k, now, bytes left) bytes and none failing
StepChunked(st, s, k) ==
    IF st.pc = "loop"
    THEN IF Now(st.buffer, st.filled) = 0 THEN BufferFullStep(st)
         ELSE IF st.pos = Len(s) THEN ReadEofStep(st)
         ELSE ReadStep(st, s, Min(k, Min(Now(st.buffer, st.filled), Len(s) - st.pos)))
    ELSE IF st.pc = "scan" THEN ScanStep(st)
    ELSE FlushStep(st)

RECURSIVE RunChunked(_, _, _)
RunChunked(st, s, k) ==
    IF st.pc = "done" THEN st.delivered
    ELSE RunChunked(StepChunked(st, s, k), s, k)

\* the lines delivered when every read fills the free part of the buffer
ParseWhole(s) == RunChunked(InitPS, s, Cap)
\* the lines delivered when every read returns one byte
ParseBytewise(s) == RunChunked(InitPS, s, 1)

\* ------------------------------------------------ logical lines of a stream
IsTerm(b) == b = CR \/ b = LF

\* index of the first terminator byte of s, 0 if there is none
FirstTerm(s) ==
    IF \E i \in 1..Len(s) : IsTerm(s[i])
    THEN CHOOSE i \in 1..Len(s) :
            IsTerm(s[i]) /\ \A j \in 1..(i - 1) : ~IsTerm(s[j])
    ELSE 0

\* the logical lines of s: the byte ranges between terminators, a terminator
\* being CR LF, a bare CR or a bare LF; a non-empty unterminated tail is the
\* last line
RECURSIVE LogicalLines(_)
LogicalLines(s) ==
    IF s = <<>> THEN <<>>
    ELSE LET k == FirstTerm(s)
         IN  IF k = 0 THEN <<s>>
             ELSE LET w == IF s[k] = CR /\ k < Len(s) /\ s[k + 1] = LF
                           THEN 2 ELSE 1
                  IN  <<SubSeq(s, 1, k - 1)>>
                        \o LogicalLines(SubSeq(s, k + w, Len(s)))

\* no logical line of s reaches the buffer capacity
AllLinesShort(s) ==
    \A i \in DOMAIN LogicalLines(s) : Len(LogicalLines(s)[i]) < Cap

\* the lines, each followed by the terminator term
RECURSIVE Encode(_, _)
Encode(lines, term) ==
    IF lines = <<>> THEN <<>>
    ELSE Head(lines) \o term \o Encode(Tail(lines), term)

TermStyles == {<<LF>>, <<CR>>, <<CR, LF>>}

\* the parse ran to its return and no read failed
Returned == pc = "done" /\ ~rd_err

\* the index in stream of the byte held in buffer[i], for i < filled
StreamIndex(i) == pos - filled + i + 1

\* ================================================================== claims

\* C1: chunk-boundary independence.  For a stream in which no logical line
\* reaches the buffer capacity, the lines delivered under any cutting of the
\* stream into reads are the lines delivered when every read fills the
\* buffer, and the lines delivered when every read returns one byte.
C1_ChunkIndependence ==
    (Returned /\ AllLinesShort(stream))
        => /\ delivered = ParseWhole(stream)
           /\ delivered = ParseBytewise(stream)

\* a finished parse of several short lines, read one byte at a time
C1_Witness ==
    /\ Returned
    /\ AllLinesShort(stream)
    /\ Len(stream) >= 5
    /\ nreads = Len(stream) + 1
    /\ Len(delivered) >= 3

\* C2: terminator-style independence.  When the stream is a sequence of
\* terminator-free line contents each followed by the same terminator (LF,
\* CR or CR LF), the lines delivered are the lines delivered for the same
\* contents encoded with each of the three terminators.
C2_TerminatorIndependence ==
    Returned =>
        \A term \in TermStyles :
            LET contents == LogicalLines(stream)
            IN  stream = Encode(contents, term) =>
                    \A other \in TermStyles :
                        delivered = ParseWhole(Encode(contents, other))

\* a finished parse of a CR LF encoded stream with empty and non-empty lines
C2_Witness ==
    /\ Returned
    /\ stream = Encode(LogicalLines(stream), <<CR, LF>>)
    /\ Len(delivered) >= 2
    /\ \E i \in DOMAIN delivered : delivered[i] = <<>>
    /\ \E i \in DOMAIN delivered : delivered[i] # <<>>

\* C3: for a stream whose logical lines are all shorter than the buffer, the
\* consumer is called once per logical line, in order, with exactly the
\* bytes between the terminators.
C3_OnceInOrder ==
    (Returned /\ AllLinesShort(stream)) => delivered = LogicalLines(stream)

\* a finished parse with a bare CR, a bare LF and an unterminated tail
C3_Witness ==
    /\ Returned
    /\ AllLinesShort(stream)
    /\ Len(delivered) >= 3
    /\ \E i \in 1..(Len(stream) - 1) : stream[i] = CR /\ stream[i + 1] # LF
    /\ \E i \in 2..Len(stream) : stream[i] = LF /\ stream[i - 1] # CR
    /\ ~IsTerm(stream[Len(stream)])

\* the pass of the inner loop about to run finds, as the first terminator,
\* an LF whose preceding stream byte is a CR
AtLfOfCrLf ==
    /\ pc = "scan"
    /\ LET carriage == MemChr(buffer, current, CR, remaining)
           newline  == MemChr(buffer, current, LF, remaining)
       IN  /\ newline # NULL
           /\ FoundOf(carriage, newline) = newline
           /\ StreamIndex(newline) >= 2
           /\ stream[StreamIndex(newline) - 1] = CR

\* C4: a CR immediately followed by LF is one terminator.  The pass that
\* finds the LF of a CR LF pair delivers nothing, wherever the reads were
\* cut, and the stream a CR LF b yields exactly the lines a, b.
C4_CrLfOnce ==
    /\ [][AtLfOfCrLf => delivered' = delivered]_vars
    /\ [](Returned /\ stream = <<97, CR, LF, 98>>
            => delivered = << <<97>>, <<98>> >>)

\* the LF of a CR LF pair is the first byte of a read, the CR having been
\* the last byte of the read before
C4_Witness ==
    /\ AtLfOfCrLf
    /\ current = 0
    /\ buffer[0] = LF
    /\ remaining = filled
    /\ prev_cr
    /\ nreads >= 2

\* the last logical line of s is exactly as long as the buffer and the
\* stream ends without a terminator after it
ExactTail(s) ==
    LET ll == LogicalLines(s)
    IN  /\ ll # <<>>
        /\ Len(ll[Len(ll)]) = Cap
        /\ ~IsTerm(s[Len(s)])

\* every logical line of s but the last is shorter than the buffer
OthersShort(s) ==
    \A i \in 1..(Len(LogicalLines(s)) - 1) : Len(LogicalLines(s)[i]) < Cap

Front(q) == SubSeq(q, 1, Len(q) - 1)

\* C5 as claimed: a line exactly as long as the buffer, unterminated at
\* end-of-stream, is delivered exactly once and in full.
C5_Original ==
    (Returned /\ ExactTail(stream)) =>
        LET tail == LogicalLines(stream)[Len(LogicalLines(stream))]
        IN  Cardinality({i \in DOMAIN delivered : delivered[i] = tail}) = 1

\* C5 amended: a line exactly as long as the buffer, unterminated at
\* end-of-stream, is not delivered at all.  The full buffer is discarded
\* before the read that finds end-of-stream, so nothing is left to flush,
\* and the shorter lines before it are delivered as usual.
C5_ExactFitDropped ==
    (~rd_err /\ ExactTail(stream)) =>
        /\ pc = "flush" => filled = 0 /\ skip_line
        /\ (pc = "done" /\ OthersShort(stream))
              => delivered = Front(LogicalLines(stream))

\* a finished parse of a short line followed by an exact-fit tail
C5_Witness ==
    /\ Returned
    /\ ExactTail(stream)
    /\ OthersShort(stream)
    /\ Len(LogicalLines(stream)) = 2
    /\ delivered = Front(LogicalLines(stream))
    /\ delivered[1] # <<>>

\* C6: no call of the consumer carries the complete content of a logical
\* line that is longer than the buffer capacity.
C6_LongLineNeverWhole ==
    delivered # <<>> =>
        LET ll == LogicalLines(stream)
            long == {ll[j] : j \in {k \in DOMAIN ll : Len(ll[k]) > Cap}}
        IN  \A i \in DOMAIN delivered : delivered[i] \notin long

\* a finished parse of a stream with a line longer than the buffer, part of
\* which was delivered
C6_Witness ==
    /\ pc = "done"
    /\ \E i \in DOMAIN delivered : delivered[i] # <<>>
    /\ \E j \in DOMAIN LogicalLines(stream) :
          Len(LogicalLines(stream)[j]) > Cap

\* a pass of the outer loop makes progress
OuterPassProgress ==
    /\ (pc = "loop" /\ filled = Cap)
          => (pc' = "loop" /\ filled' = 0 /\ nreads' = nreads)
    /\ (pc = "loop" /\ filled < Cap)
          => /\ nreads' = nreads + 1
             /\ pos' > pos \/ pc' = "flush"

\* C7: termination.  Whatever the line lengths and the cutting into reads,
\* the parse returns; a pass of the outer loop over a full buffer resets it
\* (so the pass after it reads), and any other pass reads and either
\* consumes at least one stream byte or ends the parse.
C7_Termination ==
    /\ <>(pc = "done")
    /\ [][OuterPassProgress]_vars

\* a returned parse of a single unterminated line of the greatest length,
\* several times the buffer, after more than one buffer reset
C7_Witness ==
    /\ Returned
    /\ Len(stream) = MaxStream
    /\ Len(stream) > Cap
    /\ \A i \in DOMAIN stream : ~IsTerm(stream[i])
    /\ skip_line
    /\ nreads > Len(stream) \div Cap

\* the final line flushed from the bytes buffered before the failing read
BufferedLine ==
    IF filled > 0 THEN << Slice(buffer, 0, filled) >> ELSE <<>>

\* C8: a read error ends the parse.  The failing read leaves filled, the
\* buffered bytes and the delivered lines as they were; no read follows it;
\* the bytes buffered before it, if any, are delivered as one final line and
\* the function returns.
C8_ReadError ==
    /\ [](rd_err => pc \in {"flush", "done"})
    /\ [][(~rd_err /\ rd_err')
            => /\ pc' = "flush"
               /\ filled' = filled
               /\ delivered' = delivered
               /\ \A i \in 0..(filled - 1) : buffer'[i] = buffer[i]]_vars
    /\ [][(rd_err /\ pc = "flush")
            => /\ pc' = "done"
               /\ nreads' = nreads
               /\ delivered' = delivered \o BufferedLine]_vars

\* a parse ended by a failing read that had transferred bytes, with lines
\* delivered before it and the buffered bytes delivered as the final line
C8_Witness ==
    /\ rd_err
    /\ pc = "done"
    /\ filled > 0
    /\ Len(delivered) >= 2
    /\ delivered[Len(delivered)] = Slice(buffer, 0, filled)
    /\ Slice(buffer, 0, filled) # SubSeq(stream, pos - filled + 1, pos)
    /\ \E n \in 1..(pos - filled) :
          /\ Slice(buffer, 0, filled)
                = SubSeq(stream, pos - n - filled + 1, pos - n)
          /\ buffer[filled] = stream[pos - n + 1]

\* ------------------------------------------------------ SysInfo_CommaSplit

NumCommas(s) == Cardinality({i \in DOMAIN s : s[i] = COMMA})

\* the bytes of entry i: lengths[i] bytes from starts[i]
Field(i) == SubSeq(cs_line, cs_starts[i] + 1, cs_starts[i] + cs_lengths[i])

\* the entries i .. n-1 joined with single commas
RECURSIVE JoinFrom(_, _)
JoinFrom(i, n) ==
    IF i >= n THEN <<>>
    ELSE IF i = n - 1 THEN Field(i)
    ELSE Field(i) \o <<COMMA>> \o JoinFrom(i + 1, n)

\* C9: SysInfo_CommaSplit never writes an entry at or beyond max_entries;
\* for max_entries >= 1 it returns min(commas + 1, max_entries) and has
\* written exactly that many entries, an empty line giving one entry of
\* length 0; for max_entries == 0 it returns 0 and writes nothing.
C9_FieldCount ==
    /\ DOMAIN cs_starts \subseteq 0..(cs_max - 1)
    /\ DOMAIN cs_lengths \subseteq 0..(cs_max - 1)
    /\ cs_pc = "ret" =>
        /\ DOMAIN cs_starts = 0..(cs_ret - 1)
        /\ DOMAIN cs_lengths = 0..(cs_ret - 1)
        /\ cs_max = 0 => cs_ret = 0
        /\ cs_max >= 1 => cs_ret = Min(NumCommas(cs_line) + 1, cs_max)
        /\ (cs_max >= 1 /\ cs_line = <<>>)
              => (cs_ret = 1 /\ cs_lengths[0] = 0)

\* a returned call on a line with more commas than max_entries - 1
C9_Witness ==
    /\ cs_pc = "ret"
    /\ cs_max >= 2
    /\ NumCommas(cs_line) + 1 > cs_max
    /\ cs_ret = cs_max

\* C10: for max_entries >= 1 the entries are in line order, every entry but
\* the last holds no comma, the last entry runs to the end of the line (so
\* it is the whole remainder, commas included, when the line has more
\* commas than max_entries - 1), and the entries joined with single commas
\* are the line.
C10_NoContentLost ==
    (cs_pc = "ret" /\ cs_max >= 1) =>
        /\ cs_starts[0] = 0
        /\ \A i \in 0..(cs_ret - 2) :
              /\ NumCommas(Field(i)) = 0
              /\ cs_line[cs_starts[i] + cs_lengths[i] + 1] = COMMA
              /\ cs_starts[i + 1] = cs_starts[i] + cs_lengths[i] + 1
        /\ cs_starts[cs_ret - 1] + cs_lengths[cs_ret - 1] = Len(cs_line)
        /\ NumCommas(cs_line) > cs_max - 1
              => NumCommas(Field(cs_ret - 1))
                    = NumCommas(cs_line) - (cs_max - 1)
        /\ JoinFrom(0, cs_ret) = cs_line

\* a returned call whose last entry took a remainder that holds a comma
C10_Witness ==
    /\ cs_pc = "ret"
    /\ cs_max >= 2
    /\ cs_ret = cs_max
    /\ NumCommas(Field(cs_ret - 1)) >= 1
    /\ Len(Field(cs_ret - 1)) >= 2
    /\ Len(Field(0)) >= 1

\* ---------------------------------------------------- SysInfo_IsOnlyDigits

\* C16: SysInfo_IsOnlyDigits returns true exactly when every byte of the
\* range is one of '0'..'9'; for a range of length zero it returns true.
C16_OnlyDigits ==
    dg_pc = "ret" =>
        /\ dg_ret = (\A i \in DOMAIN dg_str : dg_str[i] \in 48..57)
        /\ dg_str = <<>> => dg_ret

\* a returned call on digits followed by the byte after '9'
C16_Witness ==
    /\ dg_pc = "ret"
    /\ Len(dg_str) >= 2
    /\ dg_str[1] \in 48..57
    /\ dg_str[Len(dg_str)] = 58
    /\ ~dg_ret

\* ---------------------------------------------- SysInfoLineParser_InspectLog

\* line begins with exactly the bytes of prefix
BeginsWith(line, prefix) ==
    /\ Len(line) >= Len(prefix)
    /\ \A i \in 1..Len(prefix) : line[i] = prefix[i]

\* what follows the prefix in line
AfterPrefix(line, prefix) == SubSeq(line, Len(prefix) + 1, Len(line))

\* the value the tag extractor should hold after the lines: the remainder
\* of the last line beginning with the prefix, cut to the field capacity,
\* and the sentinel when there is no such line
ExpectedDate(lines) ==
    LET m == {i \in DOMAIN lines : BeginsWith(lines[i], S_CommentUpdated)}
    IN  IF m = {} THEN S_Unknown
        ELSE LET k == CHOOSE i \in m : \A j \in m : j <= i
                 r == AfterPrefix(lines[k], S_CommentUpdated)
             IN  SubSeq(r, 1, Min(Len(r), AssemblyDateSize - 1))

\* the line of the call just made to SysInfoLineParser_InspectLog
InspectFed == insp_lines'[Len(insp_lines')]

\* C11: last match wins.  After any sequence of calls assembly_date holds
\* the remainder, cut to the field capacity, of the last line that begins
\* with CommentUpdated=, and a call with a line that does not begin with it
\* (a shorter line included) leaves assembly_date as it was.
C11_LastMatchWins ==
    /\ [](CStr(assembly_date) = ExpectedDate(insp_lines))
    /\ [][(insp_lines' # insp_lines
            /\ ~BeginsWith(InspectFed, S_CommentUpdated))
              => assembly_date' = assembly_date]_vars

\* a match, then a line without the prefix, then a match with another value
C11_Witness ==
    /\ Len(insp_lines) = 3
    /\ BeginsWith(insp_lines[1], S_CommentUpdated)
    /\ ~BeginsWith(insp_lines[2], S_CommentUpdated)
    /\ Len(insp_lines[2]) < Len(S_CommentUpdated)
    /\ BeginsWith(insp_lines[3], S_CommentUpdated)
    /\ CStr(assembly_date) = AfterPrefix(insp_lines[3], S_CommentUpdated)
    /\ CStr(assembly_date) # AfterPrefix(insp_lines[1], S_CommentUpdated)
    /\ CStr(assembly_date) # <<>>

\* a call to SysInfoLineParser_InspectLog has just been made with a line
\* that begins with CommentUpdated=
InspectMatchFed ==
    /\ insp_lines' # insp_lines
    /\ BeginsWith(InspectFed, S_CommentUpdated)

\* C15: the tag extractor never overruns its destination.  For a matching
\* line with a remainder of length n it stores the first min(n, 19) bytes
\* of the remainder at the start of assembly_date and a terminator at index
\* min(n, 19); the cells after the terminator are as they were and no cell
\* outside the 20 of the field is written.
C15_NoOverrun ==
    /\ [](DOMAIN assembly_date = 0..(AssemblyDateSize - 1))
    /\ [][InspectMatchFed =>
            LET r == AfterPrefix(InspectFed, S_CommentUpdated)
                k == IF Len(r) < 19 THEN Len(r) ELSE 19
            IN  /\ \A i \in 0..(k - 1) : assembly_date'[i] = r[i + 1]
                /\ assembly_date'[k] = 0
                /\ \A i \in (k + 1)..(AssemblyDateSize - 1) :
                      assembly_date'[i] = assembly_date[i]]_vars

\* a remainder longer than the field has been stored: 19 bytes of it and
\* the terminator in the last cell, over a cell that held something else
C15_Witness ==
    /\ insp_lines # <<>>
    /\ BeginsWith(insp_lines[Len(insp_lines)], S_CommentUpdated)
    /\ Len(AfterPrefix(insp_lines[Len(insp_lines)], S_CommentUpdated)) > 20
    /\ assembly_date[19] = 0
    /\ assembly_date[18] =
          AfterPrefix(insp_lines[Len(insp_lines)], S_CommentUpdated)[19]
    /\ \E i \in 1..(Len(insp_lines) - 1) :
          Len(AfterPrefix(insp_lines[i], S_CommentUpdated)) = 4

\* ---------------------------------------------- SysInfoLineParser_ProductLog

\* the position in line of its n-th comma, n >= 1
NthComma(line, n) ==
    CHOOSE p \in DOMAIN line :
        /\ line[p] = COMMA
        /\ Cardinality({q \in 1..(p - 1) : line[q] = COMMA}) = n - 1

\* the i-th comma separated field of line, for 1 <= i <= 8 and a line of at
\* least i - 1 commas
RefField(line, i) ==
    LET first == IF i = 1 THEN 1 ELSE NthComma(line, i - 1) + 1
        last  == IF NumCommas(line) >= i THEN NthComma(line, i) - 1
                 ELSE Len(line)
    IN  SubSeq(line, first, last)

\* index of the first byte of r at or after from that is (is not) a space,
\* 0 if there is none
FirstSpace(r, from) ==
    LET c == {j \in from..Len(r) : r[j] = SPACE}
    IN  IF c = {} THEN 0 ELSE CHOOSE j \in c : \A k \in c : j <= k

FirstNonSpace(r, from) ==
    LET c == {j \in from..Len(r) : r[j] # SPACE}
    IN  IF c = {} THEN 0 ELSE CHOOSE j \in c : \A k \in c : j <= k

\* what follows the spaces after the nup value of the field v = nup:...
AfterNupSpaces(v) ==
    LET r == AfterPrefix(v, S_Nup)
        i == FirstSpace(r, 1)
        j == IF i = 0 THEN 0 ELSE FirstNonSpace(r, i)
    IN  IF j = 0 THEN <<>> ELSE SubSeq(r, j, Len(r))

\* the nup value and the cup value of a field nup:N cup:C ...
NupValue(v) ==
    LET r == AfterPrefix(v, S_Nup)
    IN  SubSeq(r, 1, FirstSpace(r, 1) - 1)

CupValue(v) ==
    LET c == AfterPrefix(AfterNupSpaces(v), S_Cup)
        e == FirstSpace(c, 1)
    IN  IF e = 0 THEN c ELSE SubSeq(c, 1, e - 1)

\* the line is not a well-formed DataList record
Malformed(line) ==
    \/ NumCommas(line) < 1
    \/ RefField(line, 1) = <<>>
    \/ \E i \in DOMAIN RefField(line, 1) : RefField(line, 1)[i] \notin 48..57
    \/ RefField(line, 2) # S_DataList
    \/ NumCommas(line) < 7
    \/ RefField(line, 3) # S_OK
    \/ ~BeginsWith(RefField(line, 8), S_Nup)
    \/ ~BeginsWith(AfterNupSpaces(RefField(line, 8)), S_Cup)

\* cup value, '-', nup value of a well-formed record
Composed(line) ==
    CupValue(RefField(line, 8)) \o <<DASH>> \o NupValue(RefField(line, 8))

\* the composed value and its terminator fit the field
FitsField(line) == Len(Composed(line)) + 1 <= OriginalFirmwareSize

\* the value the record extractor should hold after the lines
ExpectedFirmware(lines) ==
    LET m == {i \in DOMAIN lines :
                 ~Malformed(lines[i]) /\ FitsField(lines[i])}
    IN  IF m = {} THEN S_Unknown
        ELSE Composed(lines[CHOOSE i \in m : \A j \in m : j <= i])

\* the line of the call just made to SysInfoLineParser_ProductLog
ProductFed == prod_lines'[Len(prod_lines')]

\* C12: last successful match wins.  After any sequence of calls
\* original_firmware holds cup value, '-', nup value of the last line that
\* is a well-formed DataList record whose composed value fits the field.
C12_LastRecordWins ==
    CStr(original_firmware) = ExpectedFirmware(prod_lines)

\* two well-formed records with different values, the second one stored
C12_Witness ==
    /\ Len(prod_lines) = 2
    /\ ~Malformed(prod_lines[1]) /\ FitsField(prod_lines[1])
    /\ ~Malformed(prod_lines[2]) /\ FitsField(prod_lines[2])
    /\ Composed(prod_lines[1]) # Composed(prod_lines[2])
    /\ Len(NupValue(RefField(prod_lines[2], 8))) = 3
    /\ Len(CupValue(RefField(prod_lines[2], 8))) = 5
    /\ CStr(original_firmware) = Composed(prod_lines[2])

\* C13: a malformed record causes no write.  A call with a line that has
\* fewer than 2 fields, a first field that is empty or holds a non-digit, a
\* second field other than DataList, fewer than 8 fields, a third field
\* other than OK, an eighth field not beginning with nup:, or no cup: after
\* the spaces that follow the nup value, leaves the result structure as it
\* was, byte for byte.
C13_MalformedNoWrite ==
    [][(prod_lines' # prod_lines /\ Malformed(ProductFed))
          => /\ original_firmware' = original_firmware
             /\ assembly_date' = assembly_date]_vars

\* a record was stored and the malformed line after it left it in place
C13_Witness ==
    /\ Len(prod_lines) = 2
    /\ ~Malformed(prod_lines[1]) /\ FitsField(prod_lines[1])
    /\ Malformed(prod_lines[2])
    /\ NumCommas(prod_lines[2]) >= 7
    /\ RefField(prod_lines[2], 2) = S_DataList
    /\ CStr(original_firmware) = Composed(prod_lines[1])

\* C14: destination capacity guard.  For a well-formed DataList line the
\* field is written only if len(cup) + 1 + len(nup) + 1 is at most 16; when
\* it is larger the field keeps its prior content byte for byte; when it is
\* written the string stored is the composed value, terminated inside the
\* field.
C14_CapacityGuard ==
    /\ [](DOMAIN original_firmware = 0..(OriginalFirmwareSize - 1))
    /\ [][(prod_lines' # prod_lines /\ ~Malformed(ProductFed)) =>
            LET cup == CupValue(RefField(ProductFed, 8))
                nup == NupValue(RefField(ProductFed, 8))
            IN  IF Len(cup) + 1 + Len(nup) + 1 > 16
                THEN original_firmware' = original_firmware
                ELSE /\ CStr(original_firmware') = Composed(ProductFed)
                     /\ original_firmware'[Len(cup) + 1 + Len(nup)] = 0
                     /\ Len(cup) + 1 + Len(nup)
                          <= OriginalFirmwareSize - 1]_vars

\* a value that fills the field to its last cell was stored, and the
\* record after it, one byte too long, left it in place
C14_Witness ==
    /\ Len(prod_lines) = 2
    /\ ~Malformed(prod_lines[1])
    /\ Len(Composed(prod_lines[1])) = OriginalFirmwareSize - 1
    /\ ~Malformed(prod_lines[2])
    /\ Len(Composed(prod_lines[2])) = OriginalFirmwareSize
    /\ CStr(original_firmware) = Composed(prod_lines[1])
    /\ original_firmware[OriginalFirmwareSize - 1] = 0

\* ------------------------------------- SysInfo_ParseText, over-length lines

\* C17: once the overflow flag is set for a line, no further byte of that
\* line is delivered, whether the line ends at a terminator or at the end
\* of the stream: no step taken while skip_line is set calls the consumer.
C17_OverflowSuppressed ==
    [][(skip_line /\ ~rd_err) => delivered' = delivered]_vars

\* the logical lines of s that are shorter than the buffer
ShortLines(s) == SelectSeq(LogicalLines(s), LAMBDA l : Len(l) < Cap)

\* s ends, without a terminator, in a line that reaches the capacity
LongTail(s) ==
    /\ s # <<>>
    /\ ~IsTerm(s[Len(s)])
    /\ Len(LogicalLines(s)[Len(LogicalLines(s))]) >= Cap

\* the pass of the inner loop about to run finds a terminator
AtTerminator ==
    /\ pc = "scan"
    /\ \E i \in current..(current + remaining - 1) : IsTerm(buffer[i])

\* C18: overflow recovery.  The pass that finds the first terminator after
\* the flag was set clears it, so when every line that reaches the capacity
\* is terminated, the lines delivered are exactly the shorter lines of the
\* stream, each once, unaltered and in order, as if the long lines were
\* absent.
C18_OverflowRecovery ==
    /\ [][AtTerminator => ~skip_line']_vars
    /\ [](( /\ Returned
            /\ ~LongTail(stream)
            /\ \E i \in DOMAIN LogicalLines(stream) :
                  Len(LogicalLines(stream)[i]) >= Cap)
          => delivered = ShortLines(stream))

\* a returned parse of a terminated line that fills the buffer at least
\* once, with a short line after it that was delivered
C18_Witness ==
    /\ Returned
    /\ Len(LogicalLines(stream)) = 2
    /\ Len(LogicalLines(stream)[1]) >= Cap
    /\ IsTerm(stream[Len(LogicalLines(stream)[1]) + 1])
    /\ delivered = << LogicalLines(stream)[2] >>
    /\ delivered[1] # <<>>
    /\ ~skip_line

\* C19: buffer invariant.  filled stays within 0..capacity; a read is made
\* only with capacity - filled > 0, returns at most that many bytes and
\* stores them at offset filled, leaving the bytes before it; a scan that
\* ends without a terminator moves the unconsumed bytes, unchanged and in
\* order, to the start of the buffer and sets filled to their count.
C19_BufferInvariant ==
    /\ [](filled \in 0..Cap /\ DOMAIN buffer = 0..(Cap - 1))
    /\ [][nreads' = nreads + 1 =>
            /\ Cap - filled > 0
            /\ pos' - pos \in 0..(Cap - filled)
            /\ \A i \in 0..(pos' - pos - 1) :
                  buffer'[filled + i] = stream[pos + i + 1]
            /\ \A i \in 0..(filled - 1) : buffer'[i] = buffer[i]
            /\ filled' \in {filled, filled + (pos' - pos)}]_vars
    /\ [][(pc = "scan" /\ pc' = "loop") =>
            /\ filled' = remaining
            /\ \A i \in 0..(remaining - 1) :
                  buffer'[i] = buffer[current + i]]_vars

\* a read has just stored bytes behind bytes carried over from the read
\* before, which a scan had moved down from the middle of the buffer
C19_Witness ==
    /\ pc = "scan"
    /\ current = 0
    /\ remaining = filled
    /\ nreads >= 2
    /\ filled = Cap
    /\ \E k \in 1..(Cap - 1) :
          /\ pos - k - (Cap - k) - 1 >= 1
          /\ IsTerm(stream[pos - Cap])
          /\ \A i \in 0..(Cap - 1) : ~IsTerm(buffer[i])
          /\ buffer[0] # buffer[Cap - 1]

\* ---------------------------------------------------------- GetSysInfo_TWLN

\* C20: sentinel default.  After GetSysInfo_TWLN, assembly_date is <unknown>
\* unless inspect.log was opened and delivered a line beginning with
\* CommentUpdated=, and original_firmware is <unknown> unless product.log
\* was opened and delivered a well-formed DataList record that fits; a line
\* of inspect.log never changes original_firmware and a line of product.log
\* never changes assembly_date.
C20_SentinelDefault ==
    /\ [](tw_pc = "done" =>
            /\ (~insp_open
                  \/ \A i \in DOMAIN insp_lines :
                        ~BeginsWith(insp_lines[i], S_CommentUpdated))
                  => CStr(assembly_date) = S_Unknown
            /\ (~prod_open
                  \/ \A i \in DOMAIN prod_lines :
                        Malformed(prod_lines[i]) \/ ~FitsField(prod_lines[i]))
                  => CStr(original_firmware) = S_Unknown)
    /\ [][insp_lines' # insp_lines
            => original_firmware' = original_firmware]_vars
    /\ [][prod_lines' # prod_lines => assembly_date' = assembly_date]_vars

\* GetSysInfo_TWLN has returned: inspect.log held a record of product.log and
\* a tag line, product.log held a tag line and records that are not stored;
\* the date is set and the firmware is still the sentinel, over fields that
\* held other bytes before
C20_Witness ==
    /\ tw_pc = "done"
    /\ insp_open
    /\ prod_open
    /\ \E i \in DOMAIN insp_lines : ~Malformed(insp_lines[i])
    /\ \E i \in DOMAIN insp_lines :
          BeginsWith(insp_lines[i], S_CommentUpdated)
    /\ \E i \in DOMAIN prod_lines :
          BeginsWith(prod_lines[i], S_CommentUpdated)
    /\ \E i \in DOMAIN prod_lines :
          ~Malformed(prod_lines[i]) /\ ~FitsField(prod_lines[i])
    /\ CStr(assembly_date) # S_Unknown
    /\ CStr(original_firmware) = S_Unknown
    /\ original_firmware[OriginalFirmwareSize - 1] # 0

\* ------------------------------- SysInfo_ParseText, what the consumer is given

\* C22: chunk-boundary independence with over-length lines.  For a stream
\* with a line that reaches the buffer capacity, the lines delivered under
\* any cutting of the stream into reads are the lines delivered when every
\* read fills the buffer, and the lines delivered when every read returns
\* one byte.
C22_ChunkIndependenceLong ==
    (Returned /\ ~AllLinesShort(stream))
        => /\ delivered = ParseWhole(stream)
           /\ delivered = ParseBytewise(stream)

\* a returned parse, by reads neither all of one byte nor all filling the
\* buffer, of a stream with a line as long as the buffer before a
\* delivered short line
C22_Witness ==
    /\ Returned
    /\ Len(LogicalLines(stream)) >= 2
    /\ Len(LogicalLines(stream)[1]) >= Cap
    /\ delivered # <<>>
    /\ nreads < Len(stream) + 1
    /\ nreads > (Len(stream) \div Cap) + 2

\* C23: every line passed to the consumer is shorter than the buffer
\* capacity, the final line flushed after the loop included.
C23_DeliveredShort ==
    \A i \in DOMAIN delivered : Len(delivered[i]) < Cap

\* a final line of capacity - 1 bytes has been flushed after a read error
C23_Witness ==
    /\ pc = "done"
    /\ rd_err
    /\ filled = Cap - 1
    /\ delivered # <<>>
    /\ Len(delivered[Len(delivered)]) = Cap - 1

\* C24: no line passed to the consumer holds a CR or an LF, the final line
\* flushed after the loop included.
C24_NoTerminatorDelivered ==
    \A i \in DOMAIN delivered :
        \A j \in DOMAIN delivered[i] : ~IsTerm(delivered[i][j])

\* a returned parse of a stream with a CR and an LF whose unterminated tail
\* was flushed as the final line
C24_Witness ==
    /\ Returned
    /\ \E i \in DOMAIN stream : stream[i] = CR
    /\ \E i \in DOMAIN stream : stream[i] = LF
    /\ filled > 0
    /\ Len(delivered) >= 3
    /\ delivered[Len(delivered)] = Slice(buffer, 0, filled)

\* ---------------------------------- SysInfo_ParseText, from call to call

\* C21: no state is carried from one call to the next.  A call made after
\* another has returned starts with filled = 0, skip_line and prev_cr
\* false, and when it returns it has delivered the lines a call on its
\* stream alone delivers, whatever the stream of the earlier call was.
C21_NoCarryOver ==
    /\ [][earlier' # earlier
            => (filled' = 0 /\ ~skip_line' /\ ~prev_cr')]_vars
    /\ []((earlier # <<>> /\ Returned) => delivered = ParseWhole(stream))

\* the second call has returned, having delivered an empty first line for
\* a stream that begins with LF, after a call on a stream that ended with
\* CR
C21_Witness ==
    /\ earlier # <<>>
    /\ earlier[1] # <<>>
    /\ earlier[1][Len(earlier[1])] = CR
    /\ Returned
    /\ stream # <<>>
    /\ stream[1] = LF
    /\ delivered # <<>>
    /\ delivered[1] = <<>>

====
